---- MODULE Spec2Model ----
(***************************************************************************)
(* A model of teacat/i18n: the translation store built by LoadMap, the     *)
(* fallback backfill pass (compileFallbacks / lookupBestFallback), locale  *)
(* selection (NewLocale) and the lookup / render path of a bound Locale    *)
(* (String, StringX, Number, NumberX).                                     *)
(*                                                                         *)
(* Go strings are modelled as sequences of one-character strings, so that  *)
(* strings.Split, strings.Contains, the context regular expression and     *)
(* the locale canonicalisation are computed character by character.        *)
(***************************************************************************)
EXTENDS Integers, Sequences, FiniteSets, TLC

VARIABLES
    defaultLocale,                \* I18n.defaultLocale
    fallbacks,                    \* I18n.fallbacks
    pluralizors,                  \* I18n.pluralizors (locale -> pluralizor id)
    compiledTranslations,         \* I18n.compiledTranslations
    runtimeCompiledTranslations,  \* I18n.runtimeCompiledTranslations
    locale,                       \* Locale.locale of the bound Locale (NoLocale before NewLocale)
    status,                       \* "running", or "fatal" once the Go runtime has killed the process
    loads,                        \* the arguments of the LoadMap calls made so far, in order
    call,                         \* the last operation: its name, arguments and result
    compilations,                 \* per name, the compileTranslation calls lookup has made for it
    goroutines                    \* per goroutine that runs a lookup step by step, its position and locals

vars == <<defaultLocale, fallbacks, pluralizors, compiledTranslations,
          runtimeCompiledTranslations, locale, status, loads, call,
          compilations, goroutines>>

----------------------------------------------------------------------------
(* Go strings and the strings package *)

\* The empty Go string.
EmptyString == <<>>

\* strings.HasPrefix(s[i..], sep): sep occurs in s at position i.
OccursAt(s, sep, i) ==
    /\ i >= 1
    /\ i + Len(sep) - 1 <= Len(s)
    /\ \A j \in 1..Len(sep) : s[i + j - 1] = sep[j]

\* strings.Index(s, sep), one-based; 0 when sep does not occur.
Index(s, sep) ==
    LET hits == {i \in 1..Len(s) : OccursAt(s, sep, i)}
    IN  IF hits = {} THEN 0 ELSE CHOOSE i \in hits : \A j \in hits : i <= j

\* strings.LastIndex(s, sep), one-based; 0 when sep does not occur.
LastIndex(s, sep) ==
    LET hits == {i \in 1..Len(s) : OccursAt(s, sep, i)}
    IN  IF hits = {} THEN 0 ELSE CHOOSE i \in hits : \A j \in hits : i >= j

\* strings.Contains(s, sep).
Contains(s, sep) == Index(s, sep) > 0

\* strings.Split(s, sep) for a non-empty sep: always at least one element.
RECURSIVE Split(_, _)
Split(s, sep) ==
    LET i == Index(s, sep)
    IN  IF i = 0
        THEN <<s>>
        ELSE <<SubSeq(s, 1, i - 1)>> \o Split(SubSeq(s, i + Len(sep), Len(s)), sep)

UpperCase == <<"A","B","C","D","E","F","G","H","I","J","K","L","M",
               "N","O","P","Q","R","S","T","U","V","W","X","Y","Z">>
LowerCase == <<"a","b","c","d","e","f","g","h","i","j","k","l","m",
               "n","o","p","q","r","s","t","u","v","w","x","y","z">>

\* strings.ToLower(s).
ToLower(s) ==
    [i \in 1..Len(s) |->
        IF \E k \in 1..Len(UpperCase) : UpperCase[k] = s[i]
        THEN LowerCase[CHOOSE k \in 1..Len(UpperCase) : UpperCase[k] = s[i]]
        ELSE s[i]]

\* strings.ReplaceAll(s, old, new) for one-character old and new.
ReplaceAll(s, old, new) == [i \in 1..Len(s) |-> IF s[i] = old THEN new ELSE s[i]]

\* filepath.Base(v): "." for the empty path, trailing slashes dropped, then the
\* last element; "/" when the path is slashes only.
RECURSIVE StripTrailingSlashes(_)
StripTrailingSlashes(v) ==
    IF Len(v) > 0 /\ v[Len(v)] = "/"
    THEN StripTrailingSlashes(SubSeq(v, 1, Len(v) - 1))
    ELSE v

Base(v) ==
    IF v = EmptyString THEN <<".">>
    ELSE LET w == StripTrailingSlashes(v)
             i == LastIndex(w, <<"/">>)
         IN  IF w = EmptyString THEN <<"/">>
             ELSE SubSeq(w, i + 1, Len(w))

\* nameInsenstive converts zh_TW.music.json, zh_TW and zh-TW to zh-tw.
nameInsenstive(v) ==
    LET b == Base(v)
        h == Split(b, <<".">>)[1]
        l == ToLower(h)
    IN  ReplaceAll(l, "_", "-")

----------------------------------------------------------------------------
(* Translations: compilation *)

\* The nil *template.Template.
NilTmpl == <<"nil">>

\* The template-open and template-close markers of text/template.
LeftDelim  == <<"{", "{">>
RightDelim == <<"}", "}">>

\* template.New("").Parse(v) for the templates of this model: text with actions
\* of the form {{.F}}, F one character. The parsed template is represented by
\* its source; a source with an unclosed or malformed action does not parse and
\* Parse returns the nil template with an error (which compileText drops).
RECURSIVE ParseOk(_)
ParseOk(v) ==
    LET i == Index(v, LeftDelim)
    IN  IF i = 0 THEN TRUE
        ELSE /\ i + 5 <= Len(v)
             /\ v[i + 2] = "."
             /\ v[i + 3] \notin {"{", "}", ".", " "}
             /\ OccursAt(v, RightDelim, i + 4)
             /\ ParseOk(SubSeq(v, i + 6, Len(v)))

Parse(v) == IF ParseOk(v) THEN v ELSE NilTmpl

\* compileText: one compiledText per " | "-separated variant; a variant holding
\* the template marker is parsed as a template, any other is kept as literal.
compileText(text) ==
    LET texts == Split(text, <<" ", "|", " ">>)
    IN  [i \in 1..Len(texts) |->
            IF Contains(texts[i], LeftDelim)
            THEN [text |-> EmptyString, tmpl |-> Parse(texts[i])]
            ELSE [text |-> texts[i], tmpl |-> NilTmpl]]

\* The text text/template prints for a field that the data does not have.
NoValue == <<"<","n","o"," ","v","a","l","u","e",">">>

\* The data argument list of a lookup: `data ...any`, empty or one map from
\* field names to strings.
NoData == <<>>

\* tmpl.Execute(&tpl, data): every action {{.F}} is replaced by the field F of
\* the data, or by "<no value>" when the data is nil or has no such field.
RECURSIVE Execute(_, _)
Execute(tmpl, data) ==
    LET i == Index(tmpl, LeftDelim)
        f == tmpl[i + 3]
    IN  IF i = 0 THEN tmpl
        ELSE SubSeq(tmpl, 1, i - 1)
             \o (IF f \in DOMAIN data THEN data[f] ELSE NoValue)
             \o Execute(SubSeq(tmpl, i + 6, Len(tmpl)), data)

\* Locale.render: a template is executed against data[0] (or nil), a literal
\* is returned unchanged.
render(text, data) ==
    IF text.tmpl /= NilTmpl
    THEN IF Len(data) > 0
         THEN Execute(text.tmpl, data[1])
         ELSE Execute(text.tmpl, <<>>)
    ELSE text.text

\* var contextRegExp = regexp.MustCompile("<(.*?)>$"); trimContext replaces
\* every match by "". The regular expression matches from the leftmost "<" up
\* to a ">" that ends the string; "." matches no newline. The character before
\* the "<" is not part of the match.
trimContext(v) ==
    LET starts == {p \in 1..(Len(v) - 1) :
                      /\ v[p] = "<"
                      /\ v[Len(v)] = ">"
                      /\ \A q \in (p + 1)..(Len(v) - 1) : v[q] /= "\n"}
    IN  IF starts = {} THEN v
        ELSE SubSeq(v, 1, (CHOOSE p \in starts : \A q \in starts : p <= q) - 1)

\* fmt.Sprintf("%s <%s>", name, context) of StringX and NumberX.
Sprintf(name, context) == name \o <<" ", "<">> \o context \o <<">">>

----------------------------------------------------------------------------
(* Pluralizors *)

\* defaultPluralizor.
defaultPluralizor(number, choices) ==
    IF choices = 2
    THEN IF number \in {0, 1} THEN 0 ELSE 1
    ELSE IF number = 0 THEN 0
         ELSE IF number = 1 THEN 1
         ELSE 2

\* Go's % on int: the remainder has the sign of the dividend.
GoRem(a, b) == IF a >= 0 THEN a % b ELSE 0 - ((0 - a) % b)

\* The custom pluralizor the test suite registers for "ru".
ruPluralizor(number, choices) ==
    LET teen        == number > 10 /\ number < 20
        endsWithOne == GoRem(number, 10) = 1
    IN  IF number = 0 THEN 0
        ELSE IF choices < 4
             THEN IF ~teen /\ endsWithOne THEN 1 ELSE 2
        ELSE IF ~teen /\ endsWithOne THEN 1
        ELSE IF ~teen /\ GoRem(number, 10) >= 2 /\ GoRem(number, 10) <= 4 THEN 2
        ELSE 3

\* A Pluralizor value is represented by the name of its function.
ApplyPluralizor(p, number, choices) ==
    IF p = "ruPluralizor" THEN ruPluralizor(number, choices)
    ELSE defaultPluralizor(number, choices)

\* I18n.pluralizor: the registered pluralizor of lang, else the default one.
pluralizor(lang) ==
    IF lang \in DOMAIN pluralizors THEN pluralizors[lang] ELSE "defaultPluralizor"

\* I18n.compileTranslation.
compileTranslation(loc, name, text) ==
    [locale |-> loc, name |-> name, pluralizor |-> pluralizor(loc),
     texts |-> compileText(text)]

----------------------------------------------------------------------------
(* The translation store and the fallback backfill pass *)

\* _, ok := m[loc][name] on a map of maps: a missing locale is a nil map,
\* which has no names.
HasTrans(store, loc, name) ==
    /\ loc \in DOMAIN store
    /\ name \in DOMAIN store[loc]

\* m[loc][name] = trans.
PutTrans(store, loc, name, trans) ==
    [store EXCEPT ![loc] =
        [n \in DOMAIN store[loc] \cup {name} |->
            IF n = name THEN trans ELSE store[loc][n]]]

\* The results of lookupBestFallback: a translation, nil, or no result at all
\* because the recursion never returns.
NilTrans      == [kind |-> "nil"]
StackOverflow == [kind |-> "overflow"]
Found(trans)  == [kind |-> "found", trans |-> trans]

\* lookupBestFallback(loc, name). `active` is the set of locales whose call of
\* lookupBestFallback for this name is on the goroutine's stack. The store does
\* not change while the walk runs, so a call for a locale already in `active`
\* repeats its caller's work without end: the recursion does not return and the
\* Go runtime ends the process with "fatal error: stack overflow".
RECURSIVE lookupBestFallback(_, _, _, _)
RECURSIVE walkFallbacks(_, _, _, _, _)

\* A walk that looks only at the chain members' own slots and never follows a
\* member's own chain.
RECURSIVE walkFallbacksFlat(_, _, _, _, _)
walkFallbacksFlat(store, chain, i, name, active) ==
    IF i > Len(chain) THEN NilTrans
    ELSE IF HasTrans(store, chain[i], name)
         THEN Found(store[chain[i]][name])
         ELSE walkFallbacksFlat(store, chain, i + 1, name, active)

\* The `for _, fallback := range fallbacks` loop of lookupBestFallback, from
\* the i-th chain member on.
walkFallbacks(store, chain, i, name, active) ==
    IF i > Len(chain) THEN NilTrans
    ELSE IF HasTrans(store, chain[i], name)
         THEN Found(store[chain[i]][name])
         ELSE LET j == lookupBestFallback(store, chain[i], name, active)
              IN  IF j.kind = "nil"
                  THEN walkFallbacks(store, chain, i + 1, name, active)
                  ELSE j

lookupBestFallback(store, loc, name, active) ==
    IF loc \in active THEN StackOverflow
    ELSE IF loc \notin DOMAIN fallbacks
         THEN IF HasTrans(store, defaultLocale, name)
              THEN Found(store[defaultLocale][name])
              ELSE NilTrans
         ELSE walkFallbacks(store, fallbacks[loc], 1, name, active \cup {loc})

\* The orders in which a `range` over a Go map may visit the keys S.
RECURSIVE Orders(_)
Orders(S) ==
    IF S = {} THEN {<<>>}
    ELSE UNION {{<<x>> \o p : p \in Orders(S \ {x})} : x \in S}

\* The inner loop of compileFallbacks for one translation of the default
\* locale, visiting the locales in the order `order`. The result is the store
\* and whether the walk overflowed the stack.
RECURSIVE backfillName(_, _, _, _)
backfillName(store, name, order, i) ==
    IF i > Len(order) THEN [store |-> store, fatal |-> FALSE]
    ELSE LET loc == order[i]
         IN  IF loc = defaultLocale \/ HasTrans(store, loc, name)
             THEN backfillName(store, name, order, i + 1)
             ELSE LET bestfit == lookupBestFallback(store, loc, name, {})
                  IN  IF bestfit.kind = "overflow"
                      THEN [store |-> store, fatal |-> TRUE]
                      ELSE IF bestfit.kind = "found"
                           THEN backfillName(PutTrans(store, loc, name, bestfit.trans),
                                             name, order, i + 1)
                           ELSE backfillName(store, name, order, i + 1)

\* The locales that the inner loop of compileFallbacks has work for: a visit
\* of the default locale or of a locale that has the name changes nothing.
Lacking(store, name) ==
    {loc \in DOMAIN store : loc /= defaultLocale /\ ~HasTrans(store, loc, name)}

\* compileFallbacks: for every translation of the default locale (a nil map
\* when the default locale has no slot), every other locale that lacks the
\* name gets its best fallback. `orders` gives, per name, the order in which
\* the inner `range` visits the locales that lack it. The passes of two names
\* read and write disjoint entries, so the order of the outer `range` does not
\* show in the result.
RECURSIVE compileFallbacks(_, _, _)
compileFallbacks(store, names, orders) ==
    IF names = {} THEN [store |-> store, fatal |-> FALSE]
    ELSE LET key  == CHOOSE n \in names : TRUE
             name == store[defaultLocale][key].name
             r    == backfillName(store, name, orders[key], 1)
         IN  IF r.fatal THEN r
             ELSE compileFallbacks(r.store, names \ {key}, orders)

\* The names compileFallbacks ranges over.
DefaultNames(store) ==
    IF defaultLocale \in DOMAIN store THEN DOMAIN store[defaultLocale] ELSE {}

\* The first loop of LoadMap: every locale key gets a fresh slot holding the
\* compiled translations of that key. Two keys with the same canonical form
\* write the same slot, and the key the `range` visits last keeps it: `last`
\* names that key for every canonical locale of the argument.
mergeLanguages(store, languages, last) ==
    LET loaded == {nameInsenstive(k) : k \in DOMAIN languages}
    IN  [loc \in DOMAIN store \cup loaded |->
            IF loc \in loaded
            THEN [name \in DOMAIN languages[last[loc]] |->
                     compileTranslation(loc, name, languages[last[loc]][name])]
            ELSE store[loc]]

\* The choices of the key visited last, one per canonical locale.
LastKeys(languages) ==
    LET loaded == {nameInsenstive(k) : k \in DOMAIN languages}
    IN  {f \in [loaded -> DOMAIN languages] : \A loc \in loaded : nameInsenstive(f[loc]) = loc}

\* The choices of the visiting orders of compileFallbacks, one per name.
RangeOrders(store) ==
    LET names == DefaultNames(store)
        all   == UNION {Orders(Lacking(store, n)) : n \in names}
    IN  {f \in [names -> all] : \A n \in names : f[n] \in Orders(Lacking(store, n))}

----------------------------------------------------------------------------
(* Model values *)

\* The Locale pointer before any NewLocale call.
NoLocale == <<"no locale">>

\* The runtime panic of an index expression out of range.
IndexPanic == <<"panic: index out of range">>

\* The result of an operation that returns nothing the model keeps.
NoResult == <<"none">>

\* The most LoadMap calls of one run: of the load specification, of the
\* fallback specification, and of the locale and lookup specifications.
MaxLoads == 2
MaxFallbackLoads == 1
MaxLookupLoads == 1

\* The most candidates of one NewLocale call of the locale specification.
MaxCandidates == 2

\* The largest count of a Number call of the plural specification.
MaxCount == 2

\* The most entries the runtime cache grows to in one run.
MaxCache == 2

\* The goroutines of the concurrent specification.
MaxGoroutines == 2

----------------------------------------------------------------------------
(* Operations *)

\* The compilation counts after one more compileTranslation call for name.
Counted(counts, name) ==
    [n \in DOMAIN counts \cup {name} |->
        IF n = name
        THEN (IF name \in DOMAIN counts THEN counts[name] + 1 ELSE 1)
        ELSE counts[n]]

\* A lookup that, on a store miss, walks the bound locale's configured chain
\* at lookup time before it compiles the name.
lookupChained(name) ==
    LET chain == IF locale \in DOMAIN fallbacks THEN fallbacks[locale] ELSE <<>>
        hits  == {i \in 1..Len(chain) : HasTrans(compiledTranslations, chain[i], name)}
    IN  IF HasTrans(compiledTranslations, locale, name)
        THEN [trans |-> compiledTranslations[locale][name],
              cache |-> runtimeCompiledTranslations,
              compiled |-> FALSE]
        ELSE IF hits /= {}
        THEN [trans |-> compiledTranslations[chain[CHOOSE i \in hits : TRUE]][name],
              cache |-> runtimeCompiledTranslations,
              compiled |-> FALSE]
        ELSE LET runtimeTrans ==
                     IF name \in DOMAIN runtimeCompiledTranslations
                     THEN runtimeCompiledTranslations[name]
                     ELSE compileTranslation(defaultLocale, name, trimContext(name))
             IN  [trans |-> runtimeTrans,
                  cache |-> [n \in DOMAIN runtimeCompiledTranslations \cup {name} |->
                                IF n = name THEN runtimeTrans
                                ELSE runtimeCompiledTranslations[n]],
                  compiled |-> name \notin DOMAIN runtimeCompiledTranslations]

\* A lookup that compiles the name on every store miss and never reads the
\* cache.
lookupAlways(name) ==
    IF HasTrans(compiledTranslations, locale, name)
    THEN [trans |-> compiledTranslations[locale][name],
          cache |-> runtimeCompiledTranslations,
          compiled |-> FALSE]
    ELSE LET runtimeTrans == compileTranslation(defaultLocale, name, trimContext(name))
         IN  [trans |-> runtimeTrans,
              cache |-> [n \in DOMAIN runtimeCompiledTranslations \cup {name} |->
                            IF n = name THEN runtimeTrans
                            ELSE runtimeCompiledTranslations[n]],
              compiled |-> TRUE]

\* Locale.lookup: the store entry of the bound locale, else the cached runtime
\* translation, else the name compiled as its own text (context trimmed) with
\* the default locale's pluralizor; the runtime translation is written to the
\* cache on every store miss.
lookup(name) ==
    IF HasTrans(compiledTranslations, locale, name)
    THEN [trans |-> compiledTranslations[locale][name],
          cache |-> runtimeCompiledTranslations,
          compiled |-> FALSE]
    ELSE LET runtimeTrans ==
                 IF name \in DOMAIN runtimeCompiledTranslations
                 THEN runtimeCompiledTranslations[name]
                 ELSE compileTranslation(defaultLocale, name, trimContext(name))
         IN  [trans |-> runtimeTrans,
              cache |-> [n \in DOMAIN runtimeCompiledTranslations \cup {name} |->
                            IF n = name THEN runtimeTrans
                            ELSE runtimeCompiledTranslations[n]],
              compiled |-> name \notin DOMAIN runtimeCompiledTranslations]

\* The lookups a run may make: the cache is bounded by MaxCache.
CanLookup(name) ==
    /\ status = "running"
    /\ locale /= NoLocale
    /\ \/ HasTrans(compiledTranslations, locale, name)
       \/ name \in DOMAIN runtimeCompiledTranslations
       \/ Cardinality(DOMAIN runtimeCompiledTranslations) < MaxCache

\* A String that renders the last variant of the translation.
StringOfLast(name, data) ==
    render(lookup(name).trans.texts[Len(lookup(name).trans.texts)], data)

\* The body of Locale.String.
StringOf(name, data) == render(lookup(name).trans.texts[1], data)

\* The body of Locale.Number: the pluralizor of the translation chooses the
\* variant; an index outside the variants panics.
NumberOf(name, count, data) ==
    LET selectedTrans == lookup(name).trans
        selectedIndex == ApplyPluralizor(selectedTrans.pluralizor, count,
                                         Len(selectedTrans.texts))
    IN  IF selectedIndex < 0 \/ selectedIndex >= Len(selectedTrans.texts)
        THEN IndexPanic
        ELSE render(selectedTrans.texts[selectedIndex + 1], data)

\* I18n.LoadMap, with the fallback pass it ends with.
LoadMap(languages) ==
    /\ status = "running"
    /\ \E last \in LastKeys(languages) :
         LET merged == mergeLanguages(compiledTranslations, languages, last)
         IN  \E orders \in RangeOrders(merged) :
               LET r == compileFallbacks(merged, DefaultNames(merged), orders)
               IN  /\ compiledTranslations' = r.store
                   /\ status' = IF r.fatal THEN "fatal" ELSE "running"
    /\ loads' = Append(loads, languages)
    /\ call' = [op |-> "LoadMap", args |-> <<>>, ret |-> NoResult]
    /\ UNCHANGED <<defaultLocale, fallbacks, pluralizors,
                   runtimeCompiledTranslations, locale, compilations, goroutines>>

\* A selection in which a later candidate that has a slot replaces an earlier
\* one.
RECURSIVE selectLocaleLast(_, _)
selectLocaleLast(locales, i) ==
    IF i > Len(locales) THEN defaultLocale
    ELSE IF /\ nameInsenstive(locales[i]) \in DOMAIN compiledTranslations
            /\ selectLocaleLast(locales, i + 1) = defaultLocale
         THEN nameInsenstive(locales[i])
         ELSE selectLocaleLast(locales, i + 1)

\* The candidate NewLocale selects: the first one, canonicalised, that has a
\* slot in the store, else the default locale.
RECURSIVE selectLocale(_, _)
selectLocale(locales, i) ==
    IF i > Len(locales) THEN defaultLocale
    ELSE IF nameInsenstive(locales[i]) \in DOMAIN compiledTranslations
         THEN nameInsenstive(locales[i])
         ELSE selectLocale(locales, i + 1)

\* I18n.NewLocale.
NewLocale(locales) ==
    /\ status = "running"
    /\ locale' = selectLocale(locales, 1)
    /\ call' = [op |-> "NewLocale", args |-> <<locales>>, ret |-> selectLocale(locales, 1)]
    /\ UNCHANGED <<defaultLocale, fallbacks, pluralizors, compiledTranslations,
                   runtimeCompiledTranslations, status, loads, compilations, goroutines>>

\* Locale.String.
String(name, data) ==
    /\ CanLookup(name)
    /\ runtimeCompiledTranslations' = lookup(name).cache
    /\ compilations' = IF lookup(name).compiled THEN Counted(compilations, name)
                                                 ELSE compilations
    /\ call' = [op |-> "String", args |-> <<name, data>>, ret |-> StringOf(name, data),
                compiled |-> lookup(name).compiled]
    /\ UNCHANGED <<defaultLocale, fallbacks, pluralizors, compiledTranslations,
                   locale, status, loads, goroutines>>

\* Locale.StringX.
StringX(name, context, data) ==
    /\ CanLookup(Sprintf(name, context))
    /\ runtimeCompiledTranslations' = lookup(Sprintf(name, context)).cache
    /\ compilations' = IF lookup(Sprintf(name, context)).compiled THEN Counted(compilations, Sprintf(name, context))
                                                 ELSE compilations
    /\ call' = [op |-> "StringX", args |-> <<name, context, data>>,
                ret |-> StringOf(Sprintf(name, context), data),
                compiled |-> lookup(Sprintf(name, context)).compiled]
    /\ UNCHANGED <<defaultLocale, fallbacks, pluralizors, compiledTranslations,
                   locale, status, loads, goroutines>>

\* Locale.Number.
Number(name, count, data) ==
    /\ CanLookup(name)
    /\ runtimeCompiledTranslations' = lookup(name).cache
    /\ compilations' = IF lookup(name).compiled THEN Counted(compilations, name)
                                                 ELSE compilations
    /\ call' = [op |-> "Number", args |-> <<name, count, data>>,
                ret |-> NumberOf(name, count, data),
                compiled |-> lookup(name).compiled]
    /\ UNCHANGED <<defaultLocale, fallbacks, pluralizors, compiledTranslations,
                   locale, status, loads, goroutines>>

\* Locale.NumberX.
NumberX(name, context, count, data) ==
    /\ CanLookup(Sprintf(name, context))
    /\ runtimeCompiledTranslations' = lookup(Sprintf(name, context)).cache
    /\ compilations' = IF lookup(Sprintf(name, context)).compiled THEN Counted(compilations, Sprintf(name, context))
                                                 ELSE compilations
    /\ call' = [op |-> "NumberX", args |-> <<name, context, count, data>>,
                ret |-> NumberOf(Sprintf(name, context), count, data),
                compiled |-> lookup(Sprintf(name, context)).compiled]
    /\ UNCHANGED <<defaultLocale, fallbacks, pluralizors, compiledTranslations,
                   locale, status, loads, goroutines>>

----------------------------------------------------------------------------
(* Inputs *)

\* Locale codes.
ja_jp == <<"j","a","-","j","p">>
zh_tw == <<"z","h","-","t","w">>
zh_hk == <<"z","h","-","h","k">>
zh_cn == <<"z","h","-","c","n">>
ko_kr == <<"k","o","-","k","r">>
en_us == <<"e","n","-","u","s">>

\* A token name.
k == <<"k">>

\* A map with no keys.
EmptyMap == <<>>

\* The goroutines that call lookups of one Locale concurrently, and a
\* goroutine that is in no call.
Goroutines == 1..MaxGoroutines
Idle == [pc |-> "idle"]

\* The constructor New(defaultLocale, WithFallback(f), WithPluralizor(p)).
New(d, f, p) == [defaultLocale |-> d, fallbacks |-> f, pluralizors |-> p]

\* The state a constructor call leaves.
InitWith(cfg) ==
    /\ defaultLocale = cfg.defaultLocale
    /\ fallbacks = cfg.fallbacks
    /\ pluralizors = cfg.pluralizors
    /\ compiledTranslations = EmptyMap
    /\ runtimeCompiledTranslations = EmptyMap
    /\ locale = NoLocale
    /\ status = "running"
    /\ loads = <<>>
    /\ call = [op |-> "New", args |-> <<>>, ret |-> NoResult]
    /\ compilations = EmptyMap
    /\ goroutines = [g \in Goroutines |-> Idle]

----------------------------------------------------------------------------
(* The fallback configurations: the README's, the test suite's, and chains   *)
(* that are empty, end in an empty chain, or form a cycle.                   *)

FallbackConfigs ==
    { New(ja_jp, (zh_tw :> <<zh_hk, zh_cn>>), EmptyMap),
      New(en_us, (ja_jp :> <<ko_kr>>) @@ (ko_kr :> <<zh_tw>>), EmptyMap),
      New(zh_tw, (ja_jp :> <<ko_kr>>) @@ (ko_kr :> <<zh_tw>>), EmptyMap),
      New(zh_tw, (ja_jp :> <<ko_kr>>), EmptyMap),
      New(ja_jp, (zh_tw :> <<>>), EmptyMap),
      New(ja_jp, (zh_tw :> <<zh_cn>>) @@ (zh_cn :> <<>>), EmptyMap),
      New(ja_jp, (zh_tw :> <<zh_cn>>) @@ (zh_cn :> <<zh_tw>>), EmptyMap),
      New(ja_jp, EmptyMap, EmptyMap) }

\* The locales a configuration names.
ConfiguredLocales ==
    {defaultLocale} \cup DOMAIN fallbacks
    \cup UNION {{fallbacks[l][i] : i \in 1..Len(fallbacks[l])} : l \in DOMAIN fallbacks}

\* The LoadMap arguments of the fallback runs: any set of the configured
\* locales, each with no translation or with a translation of k whose text is
\* the locale's own code.
FallbackLanguages ==
    UNION {{[l \in K |-> IF l \in D THEN (k :> l) ELSE EmptyMap] : D \in SUBSET K}
           : K \in SUBSET ConfiguredLocales}

InitFallback == \E cfg \in FallbackConfigs : InitWith(cfg)

NextFallback ==
    \/ /\ Len(loads) < MaxFallbackLoads
       /\ \E languages \in FallbackLanguages : LoadMap(languages)
    \/ \E l \in ConfiguredLocales : NewLocale(<<l>>)
    \/ String(k, NoData)
    \/ StringX(k, <<"c">>, NoData)
    \/ Number(k, 1, NoData)
    \/ NumberX(k, <<"c">>, 1, NoData)

SpecFallback == InitFallback /\ [][NextFallback]_vars

----------------------------------------------------------------------------
(* Claims about the fallback pass *)

\* What the single LoadMap call of a run loaded directly.
Loaded(l) == Len(loads) = 1 /\ l \in DOMAIN loads[1]
LoadedWith(l, name) == Loaded(l) /\ name \in DOMAIN loads[1][l]
LoadedWithout(l, name) == Loaded(l) /\ name \notin DOMAIN loads[1][l]

\* The last operation was String(name) on the Locale bound to l.
StringUnder(l, name) ==
    /\ status = "running"
    /\ call.op = "String"
    /\ call.args[1] = name
    /\ locale = l

\* The README's fallback example: default ja-jp, zh-tw falls back on zh-hk
\* and zh-cn; zh-tw is loaded without k, k is defined only in zh-cn and ja-jp.
ScenarioC1 ==
    /\ defaultLocale = ja_jp
    /\ fallbacks = (zh_tw :> <<zh_hk, zh_cn>>)
    /\ LoadedWithout(zh_tw, k)
    /\ LoadedWith(zh_cn, k)
    /\ LoadedWith(ja_jp, k)
    /\ ~LoadedWith(zh_hk, k)

\* C1: a later member of the configured chain is preferred over the default
\* locale: in the README's example, String(k) under zh-tw returns zh-cn's
\* text (whether zh-hk is not loaded or loaded without k).
C1_ChainBeforeDefault ==
    (ScenarioC1 /\ StringUnder(zh_tw, k)) => call.ret = zh_cn

\* The locales reachable from l through the configured chains, in at most n steps.
RECURSIVE ChainReach(_, _)
ChainReach(S, n) ==
    IF n = 0 THEN S
    ELSE ChainReach(S \cup UNION {{fallbacks[l][i] : i \in 1..Len(fallbacks[l])}
                                   : l \in S \cap DOMAIN fallbacks}, n - 1)

ChainMembers(l) ==
    IF l \in DOMAIN fallbacks
    THEN ChainReach({fallbacks[l][i] : i \in 1..Len(fallbacks[l])},
                    Cardinality(ConfiguredLocales))
    ELSE {}

\* No locale is reachable from its own chain.
Acyclic == \A l \in DOMAIN fallbacks : l \notin ChainMembers(l)

\* C4: the default locale is the last resort of every chain: for an acyclic
\* fallback map, after LoadMap every loaded non-default locale has an entry
\* for every name of the default locale, and that entry is the default
\* locale's when no chain member supplies the name.
C4_DefaultIsLastResort ==
    (Acyclic /\ call.op = "LoadMap" /\ status = "running") =>
        \A l \in DOMAIN compiledTranslations \ {defaultLocale} :
            \A name \in DefaultNames(compiledTranslations) :
                /\ HasTrans(compiledTranslations, l, name)
                /\ (/\ Len(loads) = 1
                    /\ ~LoadedWith(l, name)
                    /\ \A m \in ChainMembers(l) : ~LoadedWith(m, name))
                   => compiledTranslations[l][name]
                        = compiledTranslations[defaultLocale][name]

\* C7: the backfill pass of LoadMap terminates for every fallback map, a
\* cyclic one included: no LoadMap call ends in the runtime's stack overflow.
C7_BackfillTerminates == status /= "fatal"

\* The test suite's recursive example: ja-jp falls back on ko-kr, ko-kr on
\* zh-tw; k is defined in zh-tw and in the default locale, in neither ja-jp
\* nor ko-kr.
ScenarioC8 ==
    /\ fallbacks = (ja_jp :> <<ko_kr>>) @@ (ko_kr :> <<zh_tw>>)
    /\ LoadedWith(zh_tw, k)
    /\ LoadedWith(defaultLocale, k)
    /\ LoadedWithout(ja_jp, k)
    /\ ~LoadedWith(ko_kr, k)

\* C8: recursive fallback: in the recursive example the slot of ja-jp holds
\* zh-tw's entry of k after LoadMap, and String(k) under ja-jp returns zh-tw's
\* text.
C8_RecursiveFallback ==
    (ScenarioC8 /\ status = "running") =>
        /\ HasTrans(compiledTranslations, ja_jp, k)
        /\ compiledTranslations[ja_jp][k] = compiledTranslations[zh_tw][k]
        /\ compiledTranslations[ja_jp][k].locale = zh_tw
        /\ StringUnder(ja_jp, k) => call.ret = zh_tw

\* The recursive example with a default locale outside the chain, looked up.
C8_Witness ==
    /\ ScenarioC8
    /\ defaultLocale = en_us
    /\ LoadedWithout(ko_kr, k)
    /\ StringUnder(ja_jp, k)
    /\ call.ret = zh_tw

----------------------------------------------------------------------------
(* The load specification: two LoadMap calls for one locale *)

\* Two translation texts.
textX == <<"x">>
textY == <<"y">>

\* A text-based name and two contexts.
Post      == <<"P">>
verb      == <<"v">>
adjective == <<"a">>
PostVerb  == Sprintf(Post, verb)

\* The maps from some of the names to the texts.
Translations(Names, Texts) == UNION {[N -> Texts] : N \in SUBSET Names}

LoadConfigs == {New(zh_tw, EmptyMap, EmptyMap), New(en_us, EmptyMap, EmptyMap)}

LoadLanguages == {(zh_tw :> T) : T \in Translations({k, Post}, {textX, textY})}

InitLoad == \E cfg \in LoadConfigs : InitWith(cfg)

NextLoad ==
    \/ /\ Len(loads) < MaxLoads
       /\ \E languages \in LoadLanguages : LoadMap(languages)
    \/ NewLocale(<<zh_tw>>)
    \/ \E name \in {k, Post} : String(name, NoData)
    \/ StringX(Post, verb, NoData)
    \/ Number(k, 1, NoData)
    \/ NumberX(Post, verb, 1, NoData)

SpecLoad == InitLoad /\ [][NextLoad]_vars

\* C5: LoadMap merges into the store: after LoadMap(A) and then LoadMap(B),
\* for a locale in both, a name A loaded that B does not mention is still in
\* the locale's slot with A's text, and a name in both has B's text.
C5_LoadMapMerges ==
    (Len(loads) = 2 /\ status = "running") =>
        \A l \in DOMAIN loads[1] \cap DOMAIN loads[2] :
            \A name \in DOMAIN loads[1][l] :
                /\ HasTrans(compiledTranslations, nameInsenstive(l), name)
                /\ compiledTranslations[nameInsenstive(l)][name].texts =
                       IF name \in DOMAIN loads[2][l]
                       THEN compileText(loads[2][l][name])
                       ELSE compileText(loads[1][l][name])

----------------------------------------------------------------------------
(* The locale specification: NewLocale over raw candidate codes *)

\* Locale codes as a caller may write them.
zh_TW      == <<"z","h","_","T","W">>
zh_TW_json == <<"l","/","Z","H","-","t","w",".","j">>

LocaleConfigs ==
    { New(ja_jp, EmptyMap, EmptyMap),
      New(ja_jp, (zh_tw :> <<en_us>>), EmptyMap),
      New(zh_tw, (en_us :> <<zh_tw>>), EmptyMap) }

LocaleLanguages ==
    UNION {[K -> {EmptyMap, (k :> textX)}] : K \in SUBSET {zh_TW, en_us}}

\* The sequences of at most n elements of S.
RECURSIVE SeqsUpTo(_, _)
SeqsUpTo(S, n) ==
    IF n = 0 THEN {<<>>}
    ELSE SeqsUpTo(S, n - 1) \cup {Append(q, x) : q \in SeqsUpTo(S, n - 1), x \in S}

LocaleCandidates == SeqsUpTo({zh_TW_json, en_us}, MaxCandidates)

InitLocale == \E cfg \in LocaleConfigs : InitWith(cfg)

NextLocale ==
    \/ /\ Len(loads) < MaxLookupLoads
       /\ \E languages \in LocaleLanguages : LoadMap(languages)
    \/ \E locales \in LocaleCandidates : NewLocale(locales)
    \/ String(k, NoData)
    \/ StringX(k, verb, NoData)
    \/ Number(k, 1, NoData)
    \/ NumberX(k, verb, 1, NoData)

SpecLocale == InitLocale /\ [][NextLocale]_vars

\* The canonical form of a locale code: the base name up to its first ".",
\* in lower case, with "-" for "_".
CanonicalOf(code) ==
    IF code \in {zh_TW, zh_TW_json, zh_tw} THEN zh_tw ELSE code

\* The locales that were a key of some LoadMap call.
Slots == {CanonicalOf(key) : key \in UNION {DOMAIN loads[i] : i \in 1..Len(loads)}}

\* C10: NewLocale binds to the first candidate, in caller order and in
\* canonical form, that was a locale key of some LoadMap call (even one
\* with no names), and to the default locale when there is none.
C10_NewLocaleSelection ==
    call.op = "NewLocale" =>
        LET locales == call.args[1]
            hits    == {i \in 1..Len(locales) : CanonicalOf(locales[i]) \in Slots}
        IN  /\ locale = call.ret
            /\ IF hits = {}
               THEN locale = defaultLocale
               ELSE locale = CanonicalOf(locales[CHOOSE i \in hits : \A j \in hits : i <= j])

\* A second candidate, written as a file name in upper case, is chosen over
\* the default locale after a first candidate that has no slot; its slot has
\* no names.
C10_Witness ==
    /\ call.op = "NewLocale"
    /\ call.args[1] = <<en_us, zh_TW_json>>
    /\ en_us \notin DOMAIN compiledTranslations
    /\ locale = zh_tw
    /\ defaultLocale = ja_jp
    /\ compiledTranslations[zh_tw] = EmptyMap

----------------------------------------------------------------------------
(* The string specification: String and StringX over text-based names *)

\* "H{{.N}}": a name that is a template; "{{N": a name whose action is not
\* closed; "x | y": a name with two plural variants.
Greeting == <<"H", "{", "{", ".", "N", "}", "}">>
Unclosed == <<"{", "{", "N">>
XorY     == <<"x", " ", "|", " ", "y">>

\* The data of a lookup: none, or one map with the field N.
Datas == {NoData, <<[N |-> <<"Y">>]>>}

StringNames ==
    {Post, PostVerb, Sprintf(Post, adjective), Greeting, Sprintf(Greeting, verb),
     Unclosed, XorY}

\* zh-tw with any of "P" and "P <v>" translated, en-us loaded with no name
\* or not loaded.
StringLanguages ==
    {(zh_tw :> T) @@ E :
        T \in Translations({Post, PostVerb}, {textX}),
        E \in {EmptyMap, (en_us :> EmptyMap)}}

InitString == InitWith(New(zh_tw, EmptyMap, EmptyMap))

NextString ==
    \/ /\ Len(loads) < MaxLookupLoads
       /\ \E languages \in StringLanguages : LoadMap(languages)
    \/ \E l \in {zh_tw, en_us} : NewLocale(<<l>>)
    \/ \E name \in StringNames, data \in Datas : String(name, data)
    \/ \E context \in {verb, adjective}, data \in Datas : StringX(Post, context, data)
    \/ Number(Post, 1, NoData)
    \/ NumberX(Post, verb, 1, NoData)

SpecString == InitString /\ [][NextString]_vars

\* The last operation was String and the bound locale has no store entry for
\* its name.
StringMissed ==
    /\ call.op = "String"
    /\ ~HasTrans(compiledTranslations, locale, call.args[1])

\* The name ends in a context suffix.
HasContextSuffix(name) == name[Len(name)] = ">" /\ Contains(name, <<"<">>)

\* C2 as stated: String returns a string, and on a store miss the name
\* itself: verbatim when the name has no template marker and no context
\* suffix, rendered as a template from the name when it has a template marker.
C2_StringReturnsName ==
    call.op = "String" =>
        /\ call.ret /= IndexPanic
        /\ StringMissed =>
             LET name == call.args[1]
             IN  /\ (~Contains(name, LeftDelim) /\ ~HasContextSuffix(name))
                       => call.ret = name
                 /\ (Contains(name, LeftDelim) /\ ~HasContextSuffix(name) /\ ParseOk(name))
                       => call.ret = Execute(name, IF call.args[2] = NoData THEN <<>>
                                                   ELSE call.args[2][1])

\* The text before the first " | " of a name.
FirstVariant(name) ==
    LET bar == Index(name, <<" ", "|", " ">>)
    IN  IF bar = 0 THEN name ELSE SubSeq(name, 1, bar - 1)

\* C2 as amended: String returns a string, and on a store miss of a name with
\* no context suffix the first " | " variant of the name: verbatim when that
\* variant has no template marker, executed as a template when it has one
\* and parses, and the empty string when it has one and does not parse.
C2_StringNeverFails ==
    call.op = "String" =>
        /\ call.ret /= IndexPanic
        /\ (StringMissed /\ ~HasContextSuffix(call.args[1])) =>
             LET variant == FirstVariant(call.args[1])
                 data    == IF call.args[2] = NoData THEN <<>> ELSE call.args[2][1]
             IN  call.ret = IF ~Contains(variant, LeftDelim) THEN variant
                            ELSE IF ParseOk(variant) THEN Execute(variant, data)
                            ELSE EmptyString

\* String on a two-variant name that the store does not have returns the
\* first variant, and the name is in the runtime cache.
C2_Witness ==
    /\ StringMissed
    /\ call.args[1] = XorY
    /\ call.ret = <<"x">>
    /\ XorY \in DOMAIN runtimeCompiledTranslations

\* C3: an unmatched context degrades to the bare name: when the bound locale
\* has an entry neither for name + " <context>" nor for name,
\* StringX(name, context) returns what String(name) returns, the name
\* without the " <context>" suffix.
C3_UnmatchedContext ==
    (/\ call.op = "StringX"
     /\ ~HasTrans(compiledTranslations, locale, Sprintf(call.args[1], call.args[2]))
     /\ ~HasTrans(compiledTranslations, locale, call.args[1]))
    => /\ call.ret = StringOf(call.args[1], call.args[3])
       /\ call.ret = call.args[1]

----------------------------------------------------------------------------
(* The plural specification: Number and NumberX *)

\* A token name and translation texts of one, two and three variants.
token   == <<"n">>
XorYorZ == <<"x", " ", "|", " ", "y", " ", "|", " ", "z">>

PluralConfigs ==
    { New(zh_tw, EmptyMap, EmptyMap),
      New(zh_tw, EmptyMap, (en_us :> "ruPluralizor")) }

\* zh-tw, en-us or both, loaded with the token translated by a text of
\* one, two or three variants.
PluralLanguages ==
    {[l \in K |-> (token :> text)] :
        K \in {{zh_tw}, {en_us}, {zh_tw, en_us}}, text \in {textX, XorY, XorYorZ}}

\* The counts of a Number call.
Counts == (0 - 1)..MaxCount

InitPlural == \E cfg \in PluralConfigs : InitWith(cfg)

NextPlural ==
    \/ /\ Len(loads) < MaxLookupLoads
       /\ \E languages \in PluralLanguages : LoadMap(languages)
    \/ \E l \in {zh_tw, en_us} : NewLocale(<<l>>)
    \/ String(token, NoData)
    \/ StringX(token, verb, NoData)
    \/ \E name \in {token, textX, XorYorZ}, count \in Counts : Number(name, count, NoData)
    \/ \E count \in Counts : NumberX(token, verb, count, NoData)

SpecPlural == InitPlural /\ [][NextPlural]_vars

\* The translation the last Number or NumberX call looked up: the call leaves
\* the store alone and its key in the cache on a store miss.
NumberKey ==
    IF call.op = "Number" THEN call.args[1] ELSE Sprintf(call.args[1], call.args[2])
NumberCount ==
    IF call.op = "Number" THEN call.args[2] ELSE call.args[3]
NumberTrans ==
    IF HasTrans(compiledTranslations, locale, NumberKey)
    THEN compiledTranslations[locale][NumberKey]
    ELSE runtimeCompiledTranslations[NumberKey]

\* C6: Number and NumberX never read a variant out of bounds: the index the
\* default pluralizor chooses is less than the number of variants (and no
\* call ends in an index-out-of-range panic).
C6_IndexInBounds ==
    (call.op \in {"Number", "NumberX"} /\ NumberTrans.pluralizor = "defaultPluralizor") =>
        /\ defaultPluralizor(NumberCount, Len(NumberTrans.texts)) < Len(NumberTrans.texts)
        /\ call.ret /= IndexPanic

\* C9: the default pluralizor, and Number with it: with two variants the
\* counts 0 and 1 choose variant 0 and every other count variant 1; with any
\* other number of variants 0 chooses variant 0, 1 variant 1 and every other
\* count variant 2; Number renders exactly the variant of that index.
C9_DefaultPluralizor ==
    (call.op \in {"Number", "NumberX"} /\ NumberTrans.pluralizor = "defaultPluralizor") =>
        LET c     == Len(NumberTrans.texts)
            index == IF c = 2
                     THEN (IF NumberCount \in {0, 1} THEN 0 ELSE 1)
                     ELSE (IF NumberCount = 0 THEN 0 ELSE IF NumberCount = 1 THEN 1 ELSE 2)
        IN  /\ defaultPluralizor(NumberCount, c) = index
            /\ index < c
            /\ call.ret = NumberTrans.texts[index + 1].text

----------------------------------------------------------------------------
(* Claims about the names the fallback pass touches *)

\* Some LoadMap call of the run defined name for the locale l.
DefinedIn(l, name) ==
    \E i \in 1..Len(loads) : \E key \in DOMAIN loads[i] :
        nameInsenstive(key) = l /\ name \in DOMAIN loads[i][key]

\* The slot of l holds, under name, an entry that was compiled for another
\* locale: the pass put it there.
Backfilled(l, name) ==
    /\ HasTrans(compiledTranslations, l, name)
    /\ compiledTranslations[l][name].locale /= l

----------------------------------------------------------------------------
(* The canonical-form specification: configurations written in raw codes *)

\* The same configurations written with "zh-tw" and with "zh_TW": as the
\* default locale, as a key of the fallback map and as a chain member.
CanonicalConfigs ==
    { New(zh_tw, EmptyMap, EmptyMap),
      New(zh_TW, EmptyMap, EmptyMap),
      New(en_us, (zh_tw :> <<ja_jp>>), EmptyMap),
      New(en_us, (zh_TW :> <<ja_jp>>), EmptyMap),
      New(en_us, (ja_jp :> <<zh_tw>>), EmptyMap),
      New(en_us, (ja_jp :> <<zh_TW>>), EmptyMap) }

\* Any of zh_TW, en-us and ja-jp, each with no translation or with a
\* translation of k whose text is the locale's canonical code.
CanonicalLanguages ==
    UNION {{[l \in K |-> IF l \in D THEN (k :> nameInsenstive(l)) ELSE EmptyMap]
            : D \in SUBSET K} : K \in SUBSET {zh_TW, en_us, ja_jp}}

InitCanonical == \E cfg \in CanonicalConfigs : InitWith(cfg)

NextCanonical ==
    \/ /\ Len(loads) < MaxLookupLoads
       /\ \E languages \in CanonicalLanguages : LoadMap(languages)
    \/ \E locales \in {<<>>, <<zh_TW>>, <<en_us>>, <<ja_jp>>} : NewLocale(locales)
    \/ String(k, NoData)
    \/ StringX(k, verb, NoData)
    \/ Number(k, 1, NoData)
    \/ NumberX(k, verb, 1, NoData)

SpecCanonical == InitCanonical /\ [][NextCanonical]_vars

\* The configured chain of the locale l when the keys of the fallback map are
\* compared in canonical form, its members in canonical form.
CanonicalChain(l) ==
    LET keys == {key \in DOMAIN fallbacks : nameInsenstive(key) = l}
    IN  IF keys = {} THEN <<>>
        ELSE LET chain == fallbacks[CHOOSE key \in keys : TRUE]
             IN  [i \in 1..Len(chain) |-> nameInsenstive(chain[i])]

\* C12: locale codes are compared in canonical form everywhere, so a
\* configuration written with "zh_TW" behaves like one written with "zh-tw".
\* After the one LoadMap call of a run that defines k for the default locale,
\* a loaded locale without k that has no chain holds the default locale's
\* entry, and one whose chain is a single member that defines k holds that
\* member's entry; and String(k) on a Locale whose code, in canonical form,
\* was loaded with k returns that locale's text.
C12_CanonicalComparison ==
    (Len(loads) = 1 /\ status = "running") =>
        /\ DefinedIn(nameInsenstive(defaultLocale), k) =>
             \A l \in DOMAIN compiledTranslations :
                 (l /= nameInsenstive(defaultLocale) /\ ~DefinedIn(l, k)) =>
                     /\ CanonicalChain(l) = <<>> =>
                          /\ HasTrans(compiledTranslations, l, k)
                          /\ compiledTranslations[l][k].locale = nameInsenstive(defaultLocale)
                     /\ (Len(CanonicalChain(l)) = 1 /\ DefinedIn(CanonicalChain(l)[1], k)) =>
                          /\ HasTrans(compiledTranslations, l, k)
                          /\ compiledTranslations[l][k].locale = CanonicalChain(l)[1]
        /\ (call.op = "String" /\ DefinedIn(nameInsenstive(locale), k))
              => call.ret = nameInsenstive(locale)

----------------------------------------------------------------------------
(* Claims about the lookup order and the runtime cache *)

LookupOps == {"String", "StringX", "Number", "NumberX"}

\* The key a lookup call c looks up, and the data it renders with.
LookupKeyOf(c) ==
    IF c.op \in {"String", "Number"} THEN c.args[1] ELSE Sprintf(c.args[1], c.args[2])
LookupDataOf(c) == c.args[Len(c.args)]

\* What a lookup call c returns when it renders the entry trans.
OutputOf(c, trans) ==
    IF c.op \in {"String", "StringX"}
    THEN render(trans.texts[1], LookupDataOf(c))
    ELSE LET count == IF c.op = "Number" THEN c.args[2] ELSE c.args[3]
             index == ApplyPluralizor(trans.pluralizor, count, Len(trans.texts))
         IN  IF index < 0 \/ index >= Len(trans.texts) THEN IndexPanic
             ELSE render(trans.texts[index + 1], LookupDataOf(c))

\* The cache holds exactly the names lookup compiled, each compiled once, each
\* under the name as it was looked up (context suffix included) and each the
\* context-stripped name compiled with the default locale's pluralizor; the
\* last lookup rendered the store entry of the bound locale when there is one
\* and the cache entry otherwise.
MemoizedState ==
    /\ DOMAIN compilations = DOMAIN runtimeCompiledTranslations
    /\ \A name \in DOMAIN compilations : compilations[name] = 1
    /\ \A name \in DOMAIN runtimeCompiledTranslations :
          runtimeCompiledTranslations[name]
              = compileTranslation(defaultLocale, name, trimContext(name))
    /\ call.op \in LookupOps =>
          IF HasTrans(compiledTranslations, locale, LookupKeyOf(call))
          THEN call.ret = OutputOf(call, compiledTranslations[locale][LookupKeyOf(call)])
          ELSE /\ LookupKeyOf(call) \in DOMAIN runtimeCompiledTranslations
               /\ call.ret = OutputOf(call, runtimeCompiledTranslations[LookupKeyOf(call)])

\* A lookup that finds the store entry, or the cache entry, leaves the cache
\* alone and compiles nothing; any other lookup compiles the name once and
\* adds it to the cache.
MemoizedStep ==
    call'.op \in LookupOps =>
        IF \/ HasTrans(compiledTranslations, locale, LookupKeyOf(call'))
           \/ LookupKeyOf(call') \in DOMAIN runtimeCompiledTranslations
        THEN /\ ~call'.compiled
             /\ UNCHANGED <<runtimeCompiledTranslations, compilations>>
        ELSE /\ call'.compiled
             /\ DOMAIN runtimeCompiledTranslations'
                    = DOMAIN runtimeCompiledTranslations \cup {LookupKeyOf(call')}
             /\ \A name \in DOMAIN runtimeCompiledTranslations :
                    runtimeCompiledTranslations'[name] = runtimeCompiledTranslations[name]

\* C13: lookup order and memoization: lookup returns the store entry of the
\* bound locale without touching the cache, else the cache entry keyed by the
\* name as looked up, and compiles the context-stripped name with the default
\* locale's pluralizor only when there is no such entry; every unregistered
\* name is compiled at most once and repeated lookups of it return the same
\* entry and the same output.
C13_LookupMemoized == []MemoizedState /\ [][MemoizedStep]_vars

\* StringX("P", "a") is looked up a second time on a locale with no entry for
\* it: the call compiles nothing and renders the cache entry made by the
\* first call.
C13_Witness ==
    /\ call.op = "StringX"
    /\ call.args = <<Post, adjective, NoData>>
    /\ ~call.compiled
    /\ ~HasTrans(compiledTranslations, locale, Sprintf(Post, adjective))
    /\ compilations[Sprintf(Post, adjective)] = 1
    /\ call.ret = OutputOf(call, runtimeCompiledTranslations[Sprintf(Post, adjective)])

----------------------------------------------------------------------------
(* The concurrent specification: goroutines that call String on one Locale, *)
(* each running Locale.lookup statement by statement. Nothing in I18n or    *)
(* Locale orders the goroutines: there is no mutex, channel or atomic.      *)

\* The goroutine g.
AllIdle == \A g \in Goroutines : goroutines[g] = Idle
At(g, pc) == goroutines[g].pc = pc

\* The goroutine g moves on with the locals r.
Goto(g, r) == goroutines' = [goroutines EXCEPT ![g] = r]

\* g calls String(name): lookup is entered.
lookupBegin(g, name) ==
    /\ status = "running"
    /\ locale /= NoLocale
    /\ At(g, "idle")
    /\ Goto(g, [pc |-> "store", name |-> name])
    /\ UNCHANGED <<defaultLocale, fallbacks, pluralizors, compiledTranslations,
                   runtimeCompiledTranslations, locale, status, loads, call, compilations>>

\* `if selectedTrans, ok := l.parent.compiledTranslations[l.locale][name]; ok`:
\* a store entry is returned at once.
lookupStore(g) ==
    /\ status = "running"
    /\ At(g, "store")
    /\ LET name == goroutines[g].name
       IN  IF HasTrans(compiledTranslations, locale, name)
           THEN Goto(g, [pc |-> "render", name |-> name, compiled |-> FALSE,
                         trans |-> compiledTranslations[locale][name]])
           ELSE Goto(g, [pc |-> "cache", name |-> name])
    /\ UNCHANGED <<defaultLocale, fallbacks, pluralizors, compiledTranslations,
                   runtimeCompiledTranslations, locale, status, loads, call, compilations>>

\* `runtimeTrans, ok := l.parent.runtimeCompiledTranslations[name]`: a read
\* of the shared map.
lookupCache(g) ==
    /\ status = "running"
    /\ At(g, "cache")
    /\ LET name == goroutines[g].name
       IN  IF name \in DOMAIN runtimeCompiledTranslations
           THEN Goto(g, [pc |-> "insert", name |-> name, compiled |-> FALSE,
                         trans |-> runtimeCompiledTranslations[name]])
           ELSE Goto(g, [pc |-> "compile", name |-> name])
    /\ UNCHANGED <<defaultLocale, fallbacks, pluralizors, compiledTranslations,
                   runtimeCompiledTranslations, locale, status, loads, call, compilations>>

\* `if !ok { runtimeTrans = l.parent.compileTranslation(...) }`.
lookupCompile(g) ==
    /\ status = "running"
    /\ At(g, "compile")
    /\ LET name == goroutines[g].name
       IN  /\ Goto(g, [pc |-> "insert", name |-> name, compiled |-> TRUE,
                       trans |-> compileTranslation(defaultLocale, name, trimContext(name))])
           /\ compilations' = Counted(compilations, name)
    /\ UNCHANGED <<defaultLocale, fallbacks, pluralizors, compiledTranslations,
                   runtimeCompiledTranslations, locale, status, loads, call>>

\* `l.parent.runtimeCompiledTranslations[name] = runtimeTrans`: a write of
\* the shared map, made on every store miss.
lookupInsert(g) ==
    /\ status = "running"
    /\ At(g, "insert")
    /\ LET name == goroutines[g].name
       IN  runtimeCompiledTranslations' =
               [n \in DOMAIN runtimeCompiledTranslations \cup {name} |->
                   IF n = name THEN goroutines[g].trans
                   ELSE runtimeCompiledTranslations[n]]
    /\ Goto(g, [goroutines[g] EXCEPT !.pc = "render"])
    /\ UNCHANGED <<defaultLocale, fallbacks, pluralizors, compiledTranslations,
                   locale, status, loads, call, compilations>>

\* lookup returns and String renders the first variant.
lookupReturn(g) ==
    /\ status = "running"
    /\ At(g, "render")
    /\ call' = [op |-> "String", args |-> <<goroutines[g].name, NoData>>,
                ret |-> render(goroutines[g].trans.texts[1], NoData),
                compiled |-> goroutines[g].compiled]
    /\ Goto(g, Idle)
    /\ UNCHANGED <<defaultLocale, fallbacks, pluralizors, compiledTranslations,
                   runtimeCompiledTranslations, locale, status, loads, compilations>>

\* Two goroutines are at accesses of the runtime cache, one of them the
\* write, and nothing orders the two accesses: a data race on a Go map.
Racing(g, h) ==
    /\ g /= h
    /\ At(g, "insert")
    /\ At(h, "cache") \/ At(h, "insert")

\* A racing map access has no defined outcome. The runtime may detect it and
\* end the process ("fatal error: concurrent map writes" or "concurrent map
\* read and map write"); when it does not, the accesses take effect in one
\* order or the other, which are the steps lookupCache and lookupInsert.
MapFault ==
    /\ status = "running"
    /\ \E g, h \in Goroutines : Racing(g, h)
    /\ status' = "fatal"
    /\ UNCHANGED <<defaultLocale, fallbacks, pluralizors, compiledTranslations,
                   runtimeCompiledTranslations, locale, loads, call, compilations,
                   goroutines>>

\* zh-tw loaded with "P" translated or with no name.
ConcurrentLanguages == {(zh_tw :> EmptyMap), (zh_tw :> (Post :> textX))}

InitConcurrent == InitWith(New(zh_tw, EmptyMap, EmptyMap))

\* The load phase (LoadMap, NewLocale) runs while no lookup is in progress.
NextConcurrent ==
    \/ /\ AllIdle
       /\ Len(loads) < MaxLookupLoads
       /\ \E languages \in ConcurrentLanguages : LoadMap(languages)
    \/ /\ AllIdle
       /\ NewLocale(<<zh_tw>>)
    \/ \E g \in Goroutines, name \in {Post, PostVerb} : lookupBegin(g, name)
    \/ \E g \in Goroutines : lookupStore(g)
    \/ \E g \in Goroutines : lookupCache(g)
    \/ \E g \in Goroutines : lookupCompile(g)
    \/ \E g \in Goroutines : lookupInsert(g)
    \/ \E g \in Goroutines : lookupReturn(g)
    \/ MapFault

SpecConcurrent == InitConcurrent /\ [][NextConcurrent]_vars

\* C14: the check-and-insert of the runtime cache is serialized: no two
\* goroutines are ever at unordered accesses of the cache of which one is a
\* write, no process ends in a map fault, and every key is compiled once (so
\* no cache entry is replaced by a second compilation).
C14_CacheSerialized ==
    /\ \A g, h \in Goroutines : ~Racing(g, h)
    /\ status /= "fatal"
    /\ \A name \in DOMAIN compilations : compilations[name] = 1

----------------------------------------------------------------------------
(* Claims about the order of the fallback pass *)

\* The stores a LoadMap call of languages on the store `store` may leave: one
\* per order in which the pass may visit the locales (and per choice among
\* keys of one canonical form).
PassResults(store, languages) ==
    UNION {LET merged == mergeLanguages(store, languages, last)
           IN  {compileFallbacks(merged, DefaultNames(merged), orders).store
                : orders \in RangeOrders(merged)}
           : last \in LastKeys(languages)}

\* C15: backfill determinism: for an acyclic fallback map the store a LoadMap
\* call leaves is the same for every order in which the pass visits the
\* locales: whatever order the call took, every other order gives the store
\* it left.
C15_BackfillDeterministic ==
    [][(Acyclic /\ call'.op = "LoadMap" /\ Len(loads') = Len(loads) + 1) =>
          PassResults(compiledTranslations, loads'[Len(loads')]) = {compiledTranslations'}]_vars

\* A LoadMap call of the recursive example in which both ja-jp and ko-kr lack
\* k: the pass visits them in either order and both hold zh-tw's entry.
C15_Witness ==
    /\ call.op = "LoadMap"
    /\ ScenarioC8
    /\ LoadedWithout(ko_kr, k)
    /\ defaultLocale = en_us
    /\ Cardinality(Orders(Lacking(mergeLanguages(EmptyMap, loads[1], [l \in DOMAIN loads[1] |-> l]), k))) = 2
    /\ compiledTranslations[ja_jp][k].locale = zh_tw
    /\ compiledTranslations[ko_kr][k].locale = zh_tw

----------------------------------------------------------------------------
(* The reload specification: translations loaded by several LoadMap calls *)

\* zh-tw falls back on zh-cn, or no locale has a chain; the default is ja-jp.
ReloadConfigs ==
    { New(ja_jp, (zh_tw :> <<zh_cn>>), EmptyMap),
      New(ja_jp, EmptyMap, EmptyMap) }

\* Any of ja-jp, zh-tw and zh-cn, each with no translation or with a
\* translation of k whose text is the locale's own code.
ReloadLanguages ==
    UNION {{[l \in K |-> IF l \in D THEN (k :> l) ELSE EmptyMap] : D \in SUBSET K}
           : K \in SUBSET {ja_jp, zh_tw, zh_cn}}

InitReload == \E cfg \in ReloadConfigs : InitWith(cfg)

\* The locales the LoadMap calls of the run have loaded.
LoadedLocales == UNION {DOMAIN loads[i] : i \in 1..Len(loads)}

\* Every call loads locales that no earlier call loaded.
NextReload ==
    \/ /\ Len(loads) < MaxLoads
       /\ \E languages \in ReloadLanguages :
             /\ DOMAIN languages /= {}
             /\ DOMAIN languages \cap LoadedLocales = {}
             /\ LoadMap(languages)
    \/ \E l \in {ja_jp, zh_tw, zh_cn} : NewLocale(<<l>>)
    \/ String(k, NoData)
    \/ StringX(k, verb, NoData)
    \/ Number(k, 1, NoData)
    \/ NumberX(k, verb, 1, NoData)

SpecReload == InitReload /\ [][NextReload]_vars

\* Every locale was loaded by at most one LoadMap call of the run.
OneLoadEach ==
    \A i, j \in 1..Len(loads) :
        i < j => {nameInsenstive(key) : key \in DOMAIN loads[i]}
                     \cap {nameInsenstive(key) : key \in DOMAIN loads[j]} = {}

\* All the data of the run's LoadMap calls as the argument of one call.
AllLoads ==
    LET keys == UNION {DOMAIN loads[i] : i \in 1..Len(loads)}
    IN  [key \in keys |->
            loads[CHOOSE i \in 1..Len(loads) : key \in DOMAIN loads[i]][key]]

\* C16: backfilled entries stay current across loads: when every locale was
\* loaded by at most one LoadMap call, the store equals the store that one
\* LoadMap call with all the same data leaves (so an entry backfilled from
\* the default locale is replaced once a later call makes a chain member
\* define the name).
C16_LoadsEqualSingleLoad ==
    (OneLoadEach /\ status = "running" /\ Len(loads) > 0) =>
        compiledTranslations \in PassResults(EmptyMap, AllLoads)

====
